---- MODULE Spec2Model ----
(***************************************************************************)
(* Model of pygpt_net.core.docker.Docker: the sandbox container manager.   *)
(* The container runtime (Docker Engine) is the shared state; every call   *)
(* the wrapper makes against it is one atomic step of a caller, so that    *)
(* calls of several callers interleave between runtime calls.              *)
(*                                                                         *)
(* Every runtime call may fail with a generic runtime error ("Fault": the  *)
(* daemon unreachable, an APIError 500, a BuildError); the errors that     *)
(* follow from the runtime's state (NotFound, ImageNotFound, Conflict) are *)
(* computed from that state.                                               *)
(***************************************************************************)
EXTENDS Naturals, Sequences, FiniteSets

VARIABLES image, containers, nextId, pc, op, handle, ops, ret,
          s_image, s_containers, disturbed

rt     == <<image, containers, nextId>>
frame  == <<op, s_image, s_containers, disturbed>>
vars   == <<image, containers, nextId, pc, op, handle, ops, ret,
            s_image, s_containers, disturbed>>

\* Largest container id the runtime hands out in a run.
MaxId == 3

\* Threads that call into the one Docker object.
Callers == {"A", "B"}

container_name == "pygpt_container"
image_name     == "pygpt_image"

Statuses == {"created", "running", "exited"}

NoRet == [type |-> "none", val |-> "none"]

----------------------------------------------------------------------------
\* The runtime, as the wrapper's calls see it.

\* client.containers.get(name): the containers carrying that name.
Named(name) == {k \in containers : k.name = name}

\* Operations on a container object address the container by its id.
ById(id) == {k \in containers : k.id = id}

IdOf(name) == IF Named(name) = {} THEN 0 ELSE (CHOOSE k \in Named(name) : TRUE).id

StatusOf(id) == IF ById(id) = {} THEN "absent" ELSE (CHOOSE k \in ById(id) : TRUE).status

SetStatus(id, s) == {IF k.id = id THEN [k EXCEPT !.status = s] ELSE k : k \in containers}

----------------------------------------------------------------------------
\* Bookkeeping of one call: the runtime calls it made, with their outcomes.

Entry(at, res, cid) == [at |-> at, res |-> res, cid |-> cid]

Log(c, at, res, cid) == [ops EXCEPT ![c] = Append(@, Entry(at, res, cid))]

\* The call went through: on to the next statement.
Advance(c, at, cid, next) ==
    /\ pc' = [pc EXCEPT ![c] = next]
    /\ ops' = Log(c, at, "ok", cid)
    /\ UNCHANGED ret

\* execute, lines 190-195: no try block around the client, is_image, build_image.
ExecuteRaise(c, at, e, cid) ==
    /\ pc' = [pc EXCEPT ![c] = "done"]
    /\ ops' = Log(c, at, e, cid)
    /\ ret' = [ret EXCEPT ![c] = [type |-> "exception", val |-> e]]

\* Mutant of ExecuteExcept: the except clause re-raises.
ExecuteExceptReraises(c, at, e, cid) ==
    /\ pc' = [pc EXCEPT ![c] = "done"]
    /\ ops' = Log(c, at, e, cid)
    /\ ret' = [ret EXCEPT ![c] = [type |-> "exception", val |-> e]]

\* execute, except Exception: response = str(e).encode("utf-8"); return response
ExecuteExcept(c, at, e, cid) ==
    /\ pc' = [pc EXCEPT ![c] = "done"]
    /\ ops' = Log(c, at, e, cid)
    /\ ret' = [ret EXCEPT ![c] = [type |-> "bytes", val |-> e]]

\* Mutant of CreateContainerExcept: the error leaves create_container, and
\* execute's except clause ends the call.
CreateContainerExceptReraises(c, at, e, cid) ==
    /\ pc' = [pc EXCEPT ![c] = "done"]
    /\ ops' = Log(c, at, e, cid)
    /\ ret' = [ret EXCEPT ![c] = [type |-> "bytes", val |-> e]]

\* create_container, except Exception: log and return normally to execute.
CreateContainerExcept(c, at, e, cid) ==
    /\ pc' = [pc EXCEPT ![c] = "ex_get"]
    /\ ops' = Log(c, at, e, cid)
    /\ UNCHANGED ret

\* create_container, except docker.errors.NotFound: create a new container.
CreateContainerNotFound(c, at, e, cid) ==
    /\ pc' = [pc EXCEPT ![c] = "nf_create"]
    /\ ops' = Log(c, at, e, cid)
    /\ UNCHANGED ret

\* stop_container: anything but NotFound leaves stop_container (and end).
StopContainerRaise(c, at, e, cid) ==
    /\ pc' = [pc EXCEPT ![c] = "done"]
    /\ ops' = Log(c, at, e, cid)
    /\ ret' = [ret EXCEPT ![c] = [type |-> "exception", val |-> e]]

\* stop_container, except docker.errors.NotFound: log, return None.
StopContainerNotFound(c, at, e, cid) ==
    /\ pc' = [pc EXCEPT ![c] = "done"]
    /\ ops' = Log(c, at, e, cid)
    /\ ret' = [ret EXCEPT ![c] = [type |-> "None", val |-> "none"]]

----------------------------------------------------------------------------
Init ==
    /\ image \in BOOLEAN
    /\ containers \in {{}} \cup
          {{[id |-> 1, name |-> container_name, status |-> s]} : s \in Statuses}
    /\ nextId = Cardinality(containers) + 1
    /\ pc = [c \in Callers |-> "idle"]
    /\ op = [c \in Callers |-> "none"]
    /\ handle = [c \in Callers |-> 0]
    /\ ops = [c \in Callers |-> <<>>]
    /\ ret = [c \in Callers |-> NoRet]
    /\ s_image = [c \in Callers |-> FALSE]
    /\ s_containers = [c \in Callers |-> {}]
    /\ disturbed = [c \in Callers |-> FALSE]

\* A call begins: what the runtime holds at that moment is remembered.
Begin(c, what, first) ==
    /\ pc[c] = "idle"
    /\ pc' = [pc EXCEPT ![c] = first]
    /\ op' = [op EXCEPT ![c] = what]
    /\ s_image' = [s_image EXCEPT ![c] = image]
    /\ s_containers' = [s_containers EXCEPT ![c] = containers]
    /\ UNCHANGED <<rt, handle, ops, ret, disturbed>>

----------------------------------------------------------------------------
\* execute(cmd)

Execute(c) == Begin(c, "execute", "ex_client")

\* client = self.get_docker_client()
ExClient(c, F) ==
    /\ pc[c] = "ex_client"
    /\ \E fault \in F :
         IF fault THEN ExecuteRaise(c, "ex_client", "Fault", 0)
                  ELSE Advance(c, "ex_client", 0, "ii_client")
    /\ UNCHANGED <<rt, handle, frame>>

\* is_image: client = self.get_docker_client()
IsImageClient(c, F) ==
    /\ pc[c] = "ii_client"
    /\ \E fault \in F :
         IF fault THEN ExecuteRaise(c, "ii_client", "Fault", 0)
                  ELSE Advance(c, "ii_client", 0, "ii_get")
    /\ UNCHANGED <<rt, handle, frame>>

\* Mutant of IsImageGet: ImageNotFound is answered with True, nothing is built.
IsImageGetAlwaysTrue(c, F) ==
    /\ pc[c] = "ii_get"
    /\ \E fault \in F :
         IF fault THEN ExecuteRaise(c, "ii_get", "Fault", 0)
         ELSE Advance(c, "ii_get", 0, "cc_client")
    /\ UNCHANGED <<rt, handle, frame>>

\* is_image: client.images.get(name); ImageNotFound -> False -> build_image()
IsImageGet(c, F) ==
    /\ pc[c] = "ii_get"
    /\ \E fault \in F :
         IF fault THEN ExecuteRaise(c, "ii_get", "Fault", 0)
         ELSE IF image THEN Advance(c, "ii_get", 0, "cc_client")
         ELSE /\ pc' = [pc EXCEPT ![c] = "bi_client"]
              /\ ops' = Log(c, "ii_get", "ImageNotFound", 0)
              /\ UNCHANGED ret
    /\ UNCHANGED <<rt, handle, frame>>

\* build_image: client = self.get_docker_client()
BuildImageClient(c, F) ==
    /\ pc[c] = "bi_client"
    /\ \E fault \in F :
         IF fault THEN ExecuteRaise(c, "bi_client", "Fault", 0)
                  ELSE Advance(c, "bi_client", 0, "bi_build")
    /\ UNCHANGED <<rt, handle, frame>>

\* Mutant of BuildImage: a failed build is swallowed and execute goes on.
BuildImageSwallows(c, F) ==
    /\ pc[c] = "bi_build"
    /\ \E fault \in F :
         IF fault
         THEN /\ pc' = [pc EXCEPT ![c] = "cc_client"]
              /\ ops' = Log(c, "bi_build", "Fault", 0)
              /\ UNCHANGED <<ret, image>>
         ELSE Advance(c, "bi_build", 0, "cc_client") /\ image' = TRUE
    /\ UNCHANGED <<containers, nextId, handle, frame>>

\* build_image: client.images.build(..., tag=image_name)
BuildImage(c, F) ==
    /\ pc[c] = "bi_build"
    /\ \E fault \in F :
         IF fault
         THEN ExecuteRaise(c, "bi_build", "Fault", 0) /\ UNCHANGED image
         ELSE Advance(c, "bi_build", 0, "cc_client") /\ image' = TRUE
    /\ UNCHANGED <<containers, nextId, handle, frame>>

\* create_container: client, local_data_dir, image_name (before its try).
CreateContainerClient(c, F) ==
    /\ pc[c] = "cc_client"
    /\ \E fault \in F :
         IF fault THEN ExecuteExcept(c, "cc_client", "Fault", 0)
                  ELSE Advance(c, "cc_client", 0, "cc_get")
    /\ UNCHANGED <<rt, handle, frame>>

\* create_container: container = client.containers.get(name)
CreateContainerGet(c, F) ==
    /\ pc[c] = "cc_get"
    /\ \E fault \in F :
         IF fault
         THEN CreateContainerExcept(c, "cc_get", "Fault", 0) /\ UNCHANGED handle
         ELSE IF Named(container_name) = {}
         THEN CreateContainerNotFound(c, "cc_get", "NotFound", 0) /\ UNCHANGED handle
         ELSE /\ Advance(c, "cc_get", IdOf(container_name), "cc_reload")
              /\ handle' = [handle EXCEPT ![c] = IdOf(container_name)]
    /\ UNCHANGED <<rt, frame>>

\* Mutant of CreateContainerReload: the status is not looked at, the
\* container is always recreated.
CreateContainerReloadAlwaysRecreates(c, F) ==
    /\ pc[c] = "cc_reload"
    /\ \E fault \in F :
         IF fault THEN CreateContainerExcept(c, "cc_reload", "Fault", 0)
         ELSE IF ById(handle[c]) = {}
         THEN CreateContainerNotFound(c, "cc_reload", "NotFound", 0)
         ELSE Advance(c, "cc_reload", handle[c], "cc_remove")
    /\ UNCHANGED <<rt, handle, frame>>

\* create_container: container.reload(); if container.status == 'running': pass
CreateContainerReload(c, F) ==
    /\ pc[c] = "cc_reload"
    /\ \E fault \in F :
         IF fault THEN CreateContainerExcept(c, "cc_reload", "Fault", 0)
         ELSE IF ById(handle[c]) = {}
         THEN CreateContainerNotFound(c, "cc_reload", "NotFound", 0)
         ELSE IF StatusOf(handle[c]) = "running"
         THEN Advance(c, "cc_reload", handle[c], "ex_get")
         ELSE Advance(c, "cc_reload", handle[c], "cc_remove")
    /\ UNCHANGED <<rt, handle, frame>>

\* Mutant of CreateContainerRemove: the stale container is not removed.
CreateContainerRemoveMissing(c, F) ==
    /\ pc[c] = "cc_remove"
    /\ F # {}
    /\ pc' = [pc EXCEPT ![c] = "cc_create"]
    /\ UNCHANGED <<rt, handle, ops, ret, frame>>

\* create_container, else branch: container.remove()
CreateContainerRemove(c, F) ==
    /\ pc[c] = "cc_remove"
    /\ \E fault \in F :
         IF fault
         THEN CreateContainerExcept(c, "cc_remove", "Fault", 0) /\ UNCHANGED containers
         ELSE IF ById(handle[c]) = {}
         THEN CreateContainerNotFound(c, "cc_remove", "NotFound", 0) /\ UNCHANGED containers
         ELSE IF StatusOf(handle[c]) = "running"
         THEN CreateContainerExcept(c, "cc_remove", "Conflict", handle[c]) /\ UNCHANGED containers
         ELSE /\ Advance(c, "cc_remove", handle[c], "cc_create")
              /\ containers' = containers \ ById(handle[c])
    /\ UNCHANGED <<image, nextId, handle, frame>>

\* create_container, else branch: container = client.containers.create(...)
CreateContainerCreate(c, F) ==
    /\ pc[c] = "cc_create"
    /\ nextId <= MaxId
    /\ \E fault \in F :
         IF fault
         THEN CreateContainerExcept(c, "cc_create", "Fault", 0)
              /\ UNCHANGED <<containers, nextId, handle>>
         ELSE IF ~image
         THEN CreateContainerNotFound(c, "cc_create", "ImageNotFound", 0)
              /\ UNCHANGED <<containers, nextId, handle>>
         ELSE IF Named(container_name) # {}
         THEN CreateContainerExcept(c, "cc_create", "Conflict", IdOf(container_name))
              /\ UNCHANGED <<containers, nextId, handle>>
         ELSE /\ Advance(c, "cc_create", nextId, "cc_start")
              /\ containers' = containers \cup
                    {[id |-> nextId, name |-> container_name, status |-> "created"]}
              /\ nextId' = nextId + 1
              /\ handle' = [handle EXCEPT ![c] = nextId]
    /\ UNCHANGED <<image, frame>>

\* Mutant of CreateContainerStart: the new container is not started.
CreateContainerStartMissing(c, F) ==
    /\ pc[c] = "cc_start"
    /\ F # {}
    /\ pc' = [pc EXCEPT ![c] = "ex_get"]
    /\ UNCHANGED <<rt, handle, ops, ret, frame>>

\* create_container, else branch: container.start()
CreateContainerStart(c, F) ==
    /\ pc[c] = "cc_start"
    /\ \E fault \in F :
         IF fault
         THEN CreateContainerExcept(c, "cc_start", "Fault", 0) /\ UNCHANGED containers
         ELSE IF ById(handle[c]) = {}
         THEN CreateContainerNotFound(c, "cc_start", "NotFound", 0) /\ UNCHANGED containers
         ELSE /\ Advance(c, "cc_start", handle[c], "ex_get")
              /\ containers' = SetStatus(handle[c], "running")
    /\ UNCHANGED <<image, nextId, handle, frame>>

\* create_container, except NotFound: container = client.containers.create(...)
\* An exception raised inside an except clause leaves create_container.
NotFoundCreate(c, F) ==
    /\ pc[c] = "nf_create"
    /\ nextId <= MaxId
    /\ \E fault \in F :
         IF fault
         THEN ExecuteExcept(c, "nf_create", "Fault", 0)
              /\ UNCHANGED <<containers, nextId, handle>>
         ELSE IF ~image
         THEN ExecuteExcept(c, "nf_create", "ImageNotFound", 0)
              /\ UNCHANGED <<containers, nextId, handle>>
         ELSE IF Named(container_name) # {}
         THEN ExecuteExcept(c, "nf_create", "Conflict", IdOf(container_name))
              /\ UNCHANGED <<containers, nextId, handle>>
         ELSE /\ Advance(c, "nf_create", nextId, "nf_start")
              /\ containers' = containers \cup
                    {[id |-> nextId, name |-> container_name, status |-> "created"]}
              /\ nextId' = nextId + 1
              /\ handle' = [handle EXCEPT ![c] = nextId]
    /\ UNCHANGED <<image, frame>>

\* create_container, except NotFound: container.start()
NotFoundStart(c, F) ==
    /\ pc[c] = "nf_start"
    /\ \E fault \in F :
         IF fault
         THEN ExecuteExcept(c, "nf_start", "Fault", 0) /\ UNCHANGED containers
         ELSE IF ById(handle[c]) = {}
         THEN ExecuteExcept(c, "nf_start", "NotFound", 0) /\ UNCHANGED containers
         ELSE /\ Advance(c, "nf_start", handle[c], "ex_get")
              /\ containers' = SetStatus(handle[c], "running")
    /\ UNCHANGED <<image, nextId, handle, frame>>

\* execute: container = client.containers.get(name)
ExecuteGet(c, F) ==
    /\ pc[c] = "ex_get"
    /\ \E fault \in F :
         IF fault
         THEN ExecuteExcept(c, "ex_get", "Fault", 0) /\ UNCHANGED handle
         ELSE IF Named(container_name) = {}
         THEN ExecuteExcept(c, "ex_get", "NotFound", 0) /\ UNCHANGED handle
         ELSE /\ Advance(c, "ex_get", IdOf(container_name), "ex_exec")
              /\ handle' = [handle EXCEPT ![c] = IdOf(container_name)]
    /\ UNCHANGED <<rt, frame>>

\* execute: result = container.exec_run(cmd, stdout=True, stderr=True)
ExecuteExecRun(c, F) ==
    /\ pc[c] = "ex_exec"
    /\ \E fault \in F :
         IF fault THEN ExecuteExcept(c, "ex_exec", "Fault", 0)
         ELSE IF ById(handle[c]) = {}
         THEN ExecuteExcept(c, "ex_exec", "NotFound", 0)
         ELSE IF StatusOf(handle[c]) # "running"
         THEN ExecuteExcept(c, "ex_exec", "Conflict", handle[c])
         ELSE Advance(c, "ex_exec", handle[c], "ex_decode")
    /\ UNCHANGED <<rt, handle, frame>>

\* execute: tmp = result.output.decode("utf-8"); response = tmp.encode("utf-8")
ExecuteDecode(c) ==
    /\ pc[c] = "ex_decode"
    /\ \E utf8 \in BOOLEAN :
         IF utf8
         THEN /\ pc' = [pc EXCEPT ![c] = "done"]
              /\ ops' = Log(c, "ex_decode", "ok", 0)
              /\ ret' = [ret EXCEPT ![c] = [type |-> "bytes", val |-> "output"]]
         ELSE ExecuteExcept(c, "ex_decode", "UnicodeDecodeError", 0)
    /\ UNCHANGED <<rt, handle, frame>>

----------------------------------------------------------------------------
\* end(all) and stop_container(name)

\* end(all=False): the if is not taken, nothing is called.
EndNone(c) ==
    /\ pc[c] = "idle"
    /\ pc' = [pc EXCEPT ![c] = "done"]
    /\ op' = [op EXCEPT ![c] = "end"]
    /\ ret' = [ret EXCEPT ![c] = [type |-> "None", val |-> "none"]]
    /\ s_image' = [s_image EXCEPT ![c] = image]
    /\ s_containers' = [s_containers EXCEPT ![c] = containers]
    /\ UNCHANGED <<rt, handle, ops, disturbed>>

\* end(all=True) -> stop_container(get_container_name())
EndAll(c) == Begin(c, "stop", "sc_client")

\* stop_container: client = self.get_docker_client()
StopContainerClient(c, F) ==
    /\ pc[c] = "sc_client"
    /\ \E fault \in F :
         IF fault THEN StopContainerRaise(c, "sc_client", "Fault", 0)
                  ELSE Advance(c, "sc_client", 0, "sc_get")
    /\ UNCHANGED <<rt, handle, frame>>

\* stop_container: container = client.containers.get(name)
StopContainerGet(c, F) ==
    /\ pc[c] = "sc_get"
    /\ \E fault \in F :
         IF fault
         THEN StopContainerRaise(c, "sc_get", "Fault", 0) /\ UNCHANGED handle
         ELSE IF Named(container_name) = {}
         THEN StopContainerNotFound(c, "sc_get", "NotFound", 0) /\ UNCHANGED handle
         ELSE /\ Advance(c, "sc_get", IdOf(container_name), "sc_stop")
              /\ handle' = [handle EXCEPT ![c] = IdOf(container_name)]
    /\ UNCHANGED <<rt, frame>>

\* stop_container: container.stop()
StopContainerStop(c, F) ==
    /\ pc[c] = "sc_stop"
    /\ \E fault \in F :
         IF fault
         THEN StopContainerRaise(c, "sc_stop", "Fault", 0) /\ UNCHANGED containers
         ELSE IF ById(handle[c]) = {}
         THEN StopContainerNotFound(c, "sc_stop", "NotFound", 0) /\ UNCHANGED containers
         ELSE /\ Advance(c, "sc_stop", handle[c], "sc_remove")
              /\ containers' = SetStatus(handle[c],
                    IF StatusOf(handle[c]) = "running" THEN "exited"
                    ELSE StatusOf(handle[c]))
    /\ UNCHANGED <<image, nextId, handle, frame>>

\* Mutant of StopContainerRemove: the container is stopped and left behind.
StopContainerRemoveMissing(c, F) ==
    /\ pc[c] = "sc_remove"
    /\ F # {}
    /\ pc' = [pc EXCEPT ![c] = "done"]
    /\ ret' = [ret EXCEPT ![c] = [type |-> "None", val |-> "none"]]
    /\ UNCHANGED <<rt, handle, ops, frame>>

\* stop_container: container.remove()
StopContainerRemove(c, F) ==
    /\ pc[c] = "sc_remove"
    /\ \E fault \in F :
         IF fault
         THEN StopContainerRaise(c, "sc_remove", "Fault", 0) /\ UNCHANGED containers
         ELSE IF ById(handle[c]) = {}
         THEN StopContainerNotFound(c, "sc_remove", "NotFound", 0) /\ UNCHANGED containers
         ELSE IF StatusOf(handle[c]) = "running"
         THEN StopContainerRaise(c, "sc_remove", "Conflict", handle[c]) /\ UNCHANGED containers
         ELSE /\ pc' = [pc EXCEPT ![c] = "done"]
              /\ ops' = Log(c, "sc_remove", "ok", handle[c])
              /\ ret' = [ret EXCEPT ![c] = [type |-> "None", val |-> "none"]]
              /\ containers' = containers \ ById(handle[c])
    /\ UNCHANGED <<image, nextId, handle, frame>>

----------------------------------------------------------------------------
\* The caller has the result; the call's locals are gone.
Return(c) ==
    /\ pc[c] = "done"
    /\ pc' = [pc EXCEPT ![c] = "idle"]
    /\ op' = [op EXCEPT ![c] = "none"]
    /\ handle' = [handle EXCEPT ![c] = 0]
    /\ ops' = [ops EXCEPT ![c] = <<>>]
    /\ ret' = [ret EXCEPT ![c] = NoRet]
    /\ s_image' = [s_image EXCEPT ![c] = FALSE]
    /\ s_containers' = [s_containers EXCEPT ![c] = {}]
    /\ disturbed' = [disturbed EXCEPT ![c] = FALSE]
    /\ UNCHANGED rt

\* The container leaves status running on its own (killed, daemon restart):
\* the case the status test of create_container exists for.
ContainerExit ==
    /\ \E k \in containers :
         /\ k.status = "running"
         /\ containers' = SetStatus(k.id, "exited")
    /\ disturbed' = [c \in Callers |-> pc[c] # "idle"]
    /\ UNCHANGED <<image, nextId, pc, op, handle, ops, ret, s_image, s_containers>>

Step(c, F) ==
    \/ Execute(c)
    \/ ExClient(c, F)
    \/ IsImageClient(c, F)
    \/ IsImageGet(c, F)
    \/ BuildImageClient(c, F)
    \/ BuildImage(c, F)
    \/ CreateContainerClient(c, F)
    \/ CreateContainerGet(c, F)
    \/ CreateContainerReload(c, F)
    \/ CreateContainerRemove(c, F)
    \/ CreateContainerCreate(c, F)
    \/ CreateContainerStart(c, F)
    \/ NotFoundCreate(c, F)
    \/ NotFoundStart(c, F)
    \/ ExecuteGet(c, F)
    \/ ExecuteExecRun(c, F)
    \/ ExecuteDecode(c)
    \/ EndNone(c)
    \/ EndAll(c)
    \/ StopContainerClient(c, F)
    \/ StopContainerGet(c, F)
    \/ StopContainerStop(c, F)
    \/ StopContainerRemove(c, F)
    \/ Return(c)

\* One caller: calls follow one another (section 5: single-threaded, blocking).
Next == ContainerExit \/ Step("A", BOOLEAN)

Spec == Init /\ [][Next]_vars

\* Several callers on the same Docker object, no lock anywhere in the class.
\* The runtime answers every call here (no Fault): what is studied is the
\* interleaving of the callers' lifecycle steps, and the errors they meet
\* (NotFound, Conflict) are the ones the runtime's state produces.
NextConc == ContainerExit \/ \E c \in Callers : Step(c, {FALSE})

SpecConc == Init /\ [][NextConc]_vars

----------------------------------------------------------------------------
\* Reading a call's record.

RemoveSites == {"cc_remove"}
CreateSites == {"cc_create", "nf_create"}
StartSites  == {"cc_start", "nf_start"}
ExecSites   == {"ex_exec"}
BuildSites  == {"bi_client", "bi_build"}
StopSites   == {"sc_stop", "sc_remove"}
LifecycleSites == RemoveSites \cup CreateSites \cup StartSites

\* Steps 2 and 3 of execute: everything inside its try block.
TrySites == {"cc_client", "cc_get", "cc_reload"} \cup LifecycleSites
               \cup {"ex_get", "ex_exec", "ex_decode"}

Done(c, what) == pc[c] = "done" /\ op[c] = what

Idx(c) == 1..Len(ops[c])

\* Some call at one of these sites was issued, whatever came of it.
Issued(c, S) == \E i \in Idx(c) : ops[c][i].at \in S

\* The calls at these sites that went through, in order.
Went(c, S) == SelectSeq(ops[c], LAMBDA e : e.at \in S /\ e.res = "ok")

\* The runtime failed under the call, or the output was not UTF-8.
Faulted(c) == \E i \in Idx(c) : ops[c][i].res \in {"Fault", "UnicodeDecodeError"}

Last(c) == ops[c][Len(ops[c])]

\* The named container as it was when the call began.
StartId(c) ==
    IF \E k \in s_containers[c] : k.name = container_name
    THEN (CHOOSE k \in s_containers[c] : k.name = container_name).id ELSE 0

StartStatus(c) ==
    IF StartId(c) = 0 THEN "absent"
    ELSE (CHOOSE k \in s_containers[c] : k.name = container_name).status

Kind(e) ==
    IF e.at \in RemoveSites THEN "remove"
    ELSE IF e.at \in CreateSites THEN "create"
    ELSE IF e.at \in StartSites THEN "start"
    ELSE IF e.at \in ExecSites THEN "exec"
    ELSE e.at

Kinds(s) == [i \in 1..Len(s) |-> Kind(s[i])]

----------------------------------------------------------------------------
\* C1: execute never raises to its caller: whatever step of execute the
\* runtime fails at (client, image lookup, build, lifecycle, exec), the call
\* ends with a bytes value holding the error text.
C1_ExecuteNeverRaises ==
    \A c \in Callers : Done(c, "execute") => ret[c].type = "bytes"

\* C2: once execute is past the image check, every exception of the lifecycle
\* step and of the lookup, exec and decoding is caught and returned as the
\* error's text in bytes; the result is bytes for output and failure alike.
C2_TryBlockReturnsBytes ==
    \A c \in Callers :
        (Done(c, "execute") /\ Issued(c, TrySites)) =>
            /\ ret[c].type = "bytes"
            /\ ret[c].val = (IF Last(c).res = "ok" THEN "output" ELSE Last(c).res)

C2_Witness ==
    \E c \in Callers :
        /\ Done(c, "execute")
        /\ Last(c).at = "nf_create"
        /\ Last(c).res = "Fault"
        /\ ret[c] = [type |-> "bytes", val |-> "Fault"]

\* C3: with calls following one another, the runtime never holds two
\* containers of the configured name, and no containers.create is answered
\* with a name conflict: create is issued only with the name free.
C3_NoNameConflict ==
    /\ Cardinality(Named(container_name)) <= 1
    /\ \A c \in Callers : \A i \in Idx(c) :
          ops[c][i].at \in CreateSites => ops[c][i].res # "Conflict"

C3_Witness ==
    \E c \in Callers :
        /\ Done(c, "execute")
        /\ StartStatus(c) = "exited"
        /\ Kinds(Went(c, LifecycleSites)) = <<"remove", "create", "start">>
        /\ Cardinality(Named(container_name)) = 1

\* C4: a container that is running when execute begins, and stays running,
\* is left alone: no remove, create or start is issued, and the command is
\* exec'd in that very container.
C4_RunningIsReused ==
    \A c \in Callers :
        (op[c] = "execute" /\ StartStatus(c) = "running" /\ ~disturbed[c]) =>
            /\ ~Issued(c, LifecycleSites)
            /\ \A i \in Idx(c) : ops[c][i].at \in ExecSites /\ ops[c][i].res = "ok"
                                   => ops[c][i].cid = StartId(c)
            /\ (pc[c] = "done" /\ ~Faulted(c)) =>
                   /\ Len(Went(c, ExecSites)) = 1
                   /\ ret[c] = [type |-> "bytes", val |-> "output"]

C4_Witness ==
    \E c \in Callers :
        /\ Done(c, "execute")
        /\ StartStatus(c) = "running"
        /\ ~disturbed[c]
        /\ Len(Went(c, ExecSites)) = 1
        /\ ret[c].val = "output"

\* C5: when the image is present as execute begins no build is requested;
\* when it is absent one build is requested, and it has completed before any
\* container is removed, created or started and before the exec.
C5_OneBuildFirst ==
    \A c \in Callers :
        op[c] = "execute" =>
            /\ s_image[c] => ~Issued(c, BuildSites)
            /\ Len(SelectSeq(ops[c], LAMBDA e : e.at = "bi_build")) <= 1
            /\ ~s_image[c] =>
                  \A i \in Idx(c) :
                      ops[c][i].at \in LifecycleSites \cup ExecSites =>
                          \E j \in 1..(i-1) :
                              ops[c][j].at = "bi_build" /\ ops[c][j].res = "ok"
            /\ (pc[c] = "done" /\ ~Faulted(c) /\ ~s_image[c]) =>
                  /\ Len(Went(c, {"bi_build"})) = 1
                  /\ image

C5_Witness ==
    \E c \in Callers :
        /\ Done(c, "execute")
        /\ ~s_image[c]
        /\ Len(Went(c, {"bi_build"})) = 1
        /\ Len(Went(c, CreateSites)) = 1
        /\ ret[c].val = "output"

\* C6: an execute that begins with the container absent or not running, and
\* that the runtime does not fail, removes the stale container if there is
\* one, creates one container, starts it and only then execs the command,
\* all on the same container, which is running.
C6_RecreateThenExec ==
    \A c \in Callers :
        (Done(c, "execute") /\ StartStatus(c) # "running"
            /\ ~Faulted(c) /\ ~disturbed[c]) =>
            LET w == Went(c, LifecycleSites \cup ExecSites)
                n == Len(w)
            IN  /\ Kinds(w) = (IF StartId(c) = 0 THEN <<>> ELSE <<"remove">>)
                                 \o <<"create", "start", "exec">>
                /\ StartId(c) # 0 => w[1].cid = StartId(c)
                /\ w[n-2].cid = w[n].cid
                /\ w[n-1].cid = w[n].cid
                /\ w[n].cid # StartId(c)
                /\ StatusOf(w[n].cid) = "running"
                /\ Named(container_name) = ById(w[n].cid)
                /\ ret[c] = [type |-> "bytes", val |-> "output"]

C6_Witness ==
    \E c \in Callers :
        /\ Done(c, "execute")
        /\ StartStatus(c) = "created"
        /\ ~Faulted(c)
        /\ ~disturbed[c]
        /\ Kinds(Went(c, LifecycleSites \cup ExecSites))
              = <<"remove", "create", "start", "exec">>

\* C7: stop_container on an absent container returns without raising and
\* without touching the runtime; on a present one it stops it, then removes
\* it; either way the container is absent afterwards, so a second call finds
\* nothing to do. end(all=False) calls nothing.
C7_StopIsIdempotent ==
    \A c \in Callers :
        /\ (Done(c, "stop") /\ ~Faulted(c)) =>
              /\ ret[c].type = "None"
              /\ Named(container_name) = {}
              /\ image = s_image[c]
              /\ StartId(c) = 0 =>
                    /\ ~Issued(c, StopSites)
                    /\ containers = s_containers[c]
              /\ StartId(c) # 0 =>
                    /\ [i \in 1..Len(Went(c, StopSites)) |-> Went(c, StopSites)[i].at]
                          = <<"sc_stop", "sc_remove">>
                    /\ \A i \in 1..Len(Went(c, StopSites)) :
                          Went(c, StopSites)[i].cid = StartId(c)
        /\ Done(c, "end") => ops[c] = <<>> /\ ret[c].type = "None"

C7_Witness ==
    \E c \in Callers :
        /\ Done(c, "stop")
        /\ StartStatus(c) = "running"
        /\ Len(Went(c, StopSites)) = 2
        /\ containers = {}

\* C8: when the image is absent and the build fails, the error leaves
\* build_image and the call ends there: no container is looked up, removed,
\* created or started and nothing is exec'd.
C8_BuildFailureAborts ==
    \A c \in Callers :
        (op[c] = "execute" /\ \E i \in Idx(c) :
              ops[c][i].at \in BuildSites /\ ops[c][i].res # "ok") =>
            /\ pc[c] = "done"
            /\ Last(c).at \in BuildSites
            /\ ~Issued(c, TrySites)
            /\ ret[c].val = Last(c).res
            /\ ~image

C8_Witness ==
    \E c \in Callers :
        /\ Done(c, "execute")
        /\ ~s_image[c]
        /\ Last(c) = Entry("bi_build", "Fault", 0)
        /\ StartStatus(c) = "exited"
        /\ containers = s_containers[c]

\* C9: nothing serialises the lifecycle step of two callers. A create that
\* is answered with a name conflict is always the trace of that race: the
\* caller had seen the container absent or not running, and the container in
\* its way was created by the other caller after this call began.
C9_ConflictIsARace ==
    \A c \in Callers : \A i \in Idx(c) :
        (ops[c][i].at \in CreateSites /\ ops[c][i].res = "Conflict") =>
            /\ ops[c][i].cid # 0
            /\ ops[c][i].cid \notin {k.id : k \in s_containers[c]}
            /\ \A j \in Idx(c) :
                  ops[c][j].at \in CreateSites /\ ops[c][j].res = "ok"
                      => ops[c][j].cid # ops[c][i].cid
            /\ \E j \in 1..(i-1) :
                  \/ ops[c][j].res \in {"NotFound"}
                  \/ ops[c][j].at \in RemoveSites /\ ops[c][j].res = "ok"

\* Both callers saw the container absent or not running, both went on to
\* create, and one of the two creates was refused.
C9_Witness ==
    \E c, d \in Callers :
        /\ c # d
        /\ \E i \in Idx(c) : ops[c][i].at \in CreateSites /\ ops[c][i].res = "Conflict"
        /\ Len(Went(d, CreateSites)) = 1
        /\ StartStatus(c) # "running"
        /\ StartStatus(d) # "running"

\* C10: a runtime error other than not-found at the lookup or the reload in
\* create_container is logged there; execute is not aborted: its next call
\* is its own lookup of the container and, when that finds one, the exec.
C10_LookupErrorProceeds ==
    \A c \in Callers : \A i \in Idx(c) :
        (op[c] = "execute" /\ ops[c][i].at \in {"cc_get", "cc_reload"}
            /\ ops[c][i].res = "Fault") =>
            /\ pc[c] \in {"ex_get", "ex_exec", "ex_decode", "done"}
            /\ pc[c] = "ex_get" <=> Len(ops[c]) = i
            /\ Len(ops[c]) > i => ops[c][i+1].at = "ex_get"
            /\ (Len(ops[c]) > i /\ ops[c][i+1].res = "ok" /\ pc[c] = "done")
                  => ops[c][i+2].at = "ex_exec"
            /\ pc[c] = "done" => ret[c].type = "bytes"

C10_Witness ==
    \E c \in Callers :
        /\ Done(c, "execute")
        /\ \E i \in Idx(c) : ops[c][i] = Entry("cc_get", "Fault", 0)
        /\ Len(Went(c, ExecSites)) = 1
        /\ ret[c].val = "output"

====
